---- MODULE Spec2Model ----
(***************************************************************************)
(* Model of the srec package: decoding Motorola S-record text into a        *)
(* padded byte image (ParseFile), and reading / patching that image         *)
(* (Bytes, SetBytes).                                                       *)
(*                                                                          *)
(* Representation choices, all of them exact:                               *)
(*  - a Go string is the sequence of its one-character strings, which is    *)
(*    what strings.Split(s, "") produces; strings.Join(x, "") of a slice of *)
(*    it is the slice itself;                                               *)
(*  - a uint32 is a natural number below Uint32 and its arithmetic wraps at *)
(*    Uint32. TLC's integers are 32-bit signed and cannot hold              *)
(*    2^32, so Uint32 is 2^16 here, the range of the address field of an S1 *)
(*    record. The input lines carry small addresses only, far from the top  *)
(*    of either range, so the one difference to the code is the length of   *)
(*    a buffer whose size computation wrapped around: Uint32 - d here,      *)
(*    2^32 - d in the code. Go's int is the 64-bit int of the usual build:  *)
(*    int(x) - int(y) does not wrap;                                        *)
(*  - a []byte is a record [len, pad, at]: a buffer of len bytes whose      *)
(*    byte at offset k is at[k] when k is in DOMAIN at and pad otherwise.   *)
(*    The buffer of a file whose addresses span the whole address range is  *)
(*    as long as that range; this form holds it without enumerating it;     *)
(*  - an operation ends in one of three ways: st = "ok" (error nil),        *)
(*    st = "err" (an error value e is returned) or st = "panic" (a Go       *)
(*    run-time panic: slice bounds or index out of range; the program       *)
(*    terminates abnormally, the writes made before it are kept);           *)
(*  - ParseFile is called once, on the Srec NewSrec returns; SetBytes and   *)
(*    Bytes are called any number of times, before and after it.            *)
(***************************************************************************)
EXTENDS Integers, Sequences, FiniteSets, TLC

TypeFieldStrLen == 2
LengthFieldStrLen == 2
CSumFieldStrLen == 2

\* Number of values of a uint32 (scaled, see above).
Uint32 == 2 ^ 16

\* Number of values of a byte.
ByteMod == 2 ^ 8

NULL == [nil |-> TRUE]

------------------------------------------------------------------------------
(* strconv.ParseUint(s, 16, 32) and Go slice expressions                     *)

UpperDigits == <<"0","1","2","3","4","5","6","7","8","9","A","B","C","D","E","F">>
LowerDigits == <<"0","1","2","3","4","5","6","7","8","9","a","b","c","d","e","f">>

IsHexDigit(c) == \E i \in 1..16 : UpperDigits[i] = c \/ LowerDigits[i] = c

DigitVal(c) == (CHOOSE i \in 1..16 : UpperDigits[i] = c \/ LowerDigits[i] = c) - 1

RECURSIVE HexValue(_, _)
\* The value of the hex digits s, accumulated left to right from acc.
HexValue(s, acc) ==
    IF s = <<>> THEN acc
    ELSE HexValue(Tail(s), acc * 16 + DigitVal(Head(s)))

\* strconv.ParseUint(s, 16, 32): the empty string and a string with a
\* character that is no hex digit are syntax errors. (Its range error needs
\* more than 8 hex digits; the code passes it 2 to 8.)
ParseUint(s) ==
    IF s = <<>> \/ \E i \in 1..Len(s) : ~IsHexDigit(s[i])
    THEN [err |-> "syntax", val |-> 0]
    ELSE [err |-> "nil", val |-> HexValue(s, 0)]

\* sl[lo:hi] is legal when lo <= hi <= cap(sl); the slice strings.Split
\* returns has cap = len. Otherwise Go panics (slice bounds out of range).
SliceOK(sl, lo, hi) == 0 <= lo /\ lo <= hi /\ hi <= Len(sl)

\* sl[lo:hi] (0-based, hi exclusive), for a legal slice expression.
Slice(sl, lo, hi) == SubSeq(sl, lo + 1, hi)

Ok(v) == [st |-> "ok", e |-> "nil", v |-> v]
Err(e, v) == [st |-> "err", e |-> e, v |-> v]
Panic(v) == [st |-> "panic", e |-> "panic", v |-> v]

------------------------------------------------------------------------------
(* Field decoders                                                            *)

getAddrLenAsStr(srectype) ==
    CASE srectype = <<"S", "0">> -> Ok(4)
      [] srectype = <<"S", "1">> -> Ok(4)
      [] srectype = <<"S", "2">> -> Ok(6)
      [] srectype = <<"S", "3">> -> Ok(8)
      [] OTHER -> Err("srectype", 0)

getDataLenAsStr(sl) ==
    IF ~SliceOK(sl, 2, 4) THEN Panic(0)
    ELSE LET p == ParseUint(Slice(sl, 2, 4))
         IN IF p.err = "nil" THEN Ok(p.val * 2) ELSE Err(p.err, p.val * 2)

getAddress(srectype, sl) ==
    LET a == getAddrLenAsStr(srectype)
    IN IF a.st # "ok" THEN Err(a.e, 0)
       ELSE IF ~SliceOK(sl, 4, 4 + a.v) THEN Panic(0)
       ELSE LET p == ParseUint(Slice(sl, 4, 4 + a.v))
            IN IF p.err # "nil" THEN Err(p.err, 0) ELSE Ok(p.val % Uint32)

getLengh(sl) ==
    IF ~SliceOK(sl, 2, 4) THEN Panic(0)
    ELSE LET p == ParseUint(Slice(sl, 2, 4))
         IN IF p.err # "nil" THEN Err(p.err, 0) ELSE Ok(p.val % Uint32)

RECURSIVE getDataLoop(_, _, _, _)
\* The loop of getData: for i := DataIndexSt; i < DataIndexEd; i += 2.
getDataLoop(sl, i, DataIndexEd, data) ==
    IF ~(i < DataIndexEd) THEN Ok(data)
    ELSE IF ~SliceOK(sl, i, i + 2) THEN Panic(<<>>)
    ELSE LET b == ParseUint(Slice(sl, i, i + 2))
         IN IF b.err # "nil" THEN Err(b.err, <<>>)
            ELSE getDataLoop(sl, i + 2, DataIndexEd, Append(data, b.val % ByteMod))

getData(srectype, sl) ==
    LET a == getAddrLenAsStr(srectype)
        d == getDataLenAsStr(sl)
    IN IF a.st # "ok" THEN Err(a.e, <<>>)
       ELSE IF d.st # "ok" THEN [d EXCEPT !.v = <<>>]
       ELSE LET DataIndexSt == TypeFieldStrLen + LengthFieldStrLen + a.v
                DataIndexEd == (TypeFieldStrLen + LengthFieldStrLen)
                                 + (d.v - CSumFieldStrLen)
            IN getDataLoop(sl, DataIndexSt, DataIndexEd, <<>>)

getChecksum(srectype, sl) ==
    LET d == getDataLenAsStr(sl)
    IN IF d.st # "ok" THEN [d EXCEPT !.v = 0]
       ELSE LET CSumIndexSt == TypeFieldStrLen + LengthFieldStrLen + d.v
                                 - CSumFieldStrLen
                CSumIndexEd == TypeFieldStrLen + LengthFieldStrLen + d.v
            IN IF ~SliceOK(sl, CSumIndexSt, CSumIndexEd) THEN Panic(0)
               ELSE LET c == ParseUint(Slice(sl, CSumIndexSt, CSumIndexEd))
                    IN IF c.err # "nil" THEN Err(c.err, 0)
                       ELSE Ok(c.val % ByteMod)

\* The decoded header record, or the first error or panic of its fields.
getHeaderRecordFields(sl) ==
    LET l == getLengh(sl)
        d == getData(<<"S", "0">>, sl)
        c == getChecksum(<<"S", "0">>, sl)
    IN IF l.st # "ok" THEN [l EXCEPT !.v = NULL]
       ELSE IF d.st # "ok" THEN [d EXCEPT !.v = NULL]
       ELSE IF c.st # "ok" THEN [c EXCEPT !.v = NULL]
       ELSE Ok([length |-> l.v, data |-> d.v, checksum |-> c.v])

\* The decoded data record, or the first error or panic of its fields.
getDataRecordFields(srectype, sl) ==
    LET l == getLengh(sl)
        a == getAddress(srectype, sl)
        d == getData(srectype, sl)
        c == getChecksum(srectype, sl)
    IN IF l.st # "ok" THEN [l EXCEPT !.v = NULL]
       ELSE IF a.st # "ok" THEN [a EXCEPT !.v = NULL]
       ELSE IF d.st # "ok" THEN [d EXCEPT !.v = NULL]
       ELSE IF c.st # "ok" THEN [c EXCEPT !.v = NULL]
       ELSE Ok([srectype |-> srectype, length |-> l.v, address |-> a.v,
                data |-> d.v, checksum |-> c.v])

------------------------------------------------------------------------------
(* []byte                                                                    *)

EmptyBytes == [len |-> 0, pad |-> 0, at |-> <<>>]

\* b[k]
ByteAt(b, k) == IF k \in DOMAIN b.at THEN b.at[k] ELSE b.pad

\* An index expression b[k] is legal when 0 <= k < len(b); otherwise Go
\* panics (index out of range).
InBounds(b, k) == 0 <= k /\ k < b.len

\* b[k] = v
Store(b, k, v) == [b EXCEPT !.at = (k :> v) @@ @]

\* n times: b = append(b, v)
AppendFill(b, n, v) ==
    [len |-> b.len + n, pad |-> v,
     at |-> [k \in DOMAIN b.at \cup (0 .. b.len - 1) |-> ByteAt(b, k)]]

------------------------------------------------------------------------------
(* Srec                                                                      *)

\* &Srec{}: every field has its zero value.
NewSrec ==
    [headerRecord |-> NULL, dataRecords |-> <<>>, footerRecord |-> NULL,
     startAddress |-> 0, endAddress |-> 0, dataBytes |-> EmptyBytes]

DataTypes == {<<"S", "1">>, <<"S", "2">>, <<"S", "3">>}

RECURSIVE scanLines(_, _, _)
\* The scanner loop of ParseFile over the lines file[n..]: the Srec after
\* the loop, or the Srec as the first error or panic leaves it.
scanLines(s, file, n) ==
    IF n > Len(file) THEN Ok(s)
    ELSE LET splitedLine == file[n]
         IN IF ~SliceOK(splitedLine, 0, 2) THEN Panic(s)
            ELSE LET srectype == Slice(splitedLine, 0, 2)
                 IN IF srectype = <<"S", "0">>
                    THEN LET rec == getHeaderRecordFields(splitedLine)
                         IN IF rec.st # "ok" THEN [rec EXCEPT !.v = s]
                            ELSE scanLines([s EXCEPT !.headerRecord = rec.v],
                                           file, n + 1)
                    ELSE IF srectype \in DataTypes
                    THEN LET rec == getDataRecordFields(srectype, splitedLine)
                         IN IF rec.st # "ok" THEN [rec EXCEPT !.v = s]
                            ELSE scanLines(
                                   [s EXCEPT !.dataRecords = Append(@, rec.v)],
                                   file, n + 1)
                    ELSE scanLines(s, file, n + 1)

isDataRecordExists(s) ==
    IF Len(s.dataRecords) = 0 THEN "empty" ELSE "nil"

RECURSIVE isAddrAcendingLoop(_, _, _)
\* The loop of isAddrAcending from index i (0-based) with prevAddr.
isAddrAcendingLoop(recs, i, prevAddr) ==
    IF i >= Len(recs) THEN "nil"
    ELSE IF i = 0 THEN isAddrAcendingLoop(recs, i + 1, prevAddr)
    ELSE IF recs[i + 1].address < prevAddr THEN "order"
    ELSE isAddrAcendingLoop(recs, i + 1, recs[i + 1].address)

isAddrAcending(s) == isAddrAcendingLoop(s.dataRecords, 0, 0)

getStartAddr(s) == s.dataRecords[1].address

getEndAddr(s) == s.dataRecords[Len(s.dataRecords)].address

getLastRecordDataLen(s) ==
    Len(s.dataRecords[Len(s.dataRecords)].data) % Uint32

\* A size that counts endAddress as inside the buffer: one byte more.
paddedSizeEndInclusive(startAddr, endAddr, lastRecordDataLen) ==
    (((endAddr - startAddr) % Uint32) + 1 + lastRecordDataLen) % Uint32

\* size := (endAddr - startAddr) + lastRecordDataLen, in uint32 arithmetic.
paddedSize(startAddr, endAddr, lastRecordDataLen) ==
    (((endAddr - startAddr) % Uint32) + lastRecordDataLen) % Uint32

RECURSIVE copyRecords(_, _, _, _)
\* The copy loops of makePaddedBytes, at record r (1-based) and byte i
\* (0-based) of its data.
copyRecords(s, ofst, r, i) ==
    IF r > Len(s.dataRecords) THEN Ok(s)
    ELSE LET brcs == s.dataRecords[r]
         IN IF ~(i < Len(brcs.data)) THEN copyRecords(s, ofst, r + 1, 0)
            ELSE IF (brcs.address < s.startAddress)
                      \/ (brcs.address > s.endAddress)
                 THEN Err("range", s)
            ELSE IF ~InBounds(s.dataBytes, (brcs.address - ofst) + i)
                 THEN Panic(s)
            ELSE copyRecords(
                   [s EXCEPT !.dataBytes =
                       Store(@, (brcs.address - ofst) + i, brcs.data[i + 1])],
                   ofst, r, i + 1)

\* A buffer filled with 0x00 instead of 0xFF.
makePaddedBytesZeroFill(s, startAddr, endAddr, lastRecordDataLen) ==
    copyRecords(
      [s EXCEPT !.dataBytes =
          AppendFill(@, paddedSize(startAddr, endAddr, lastRecordDataLen), 0)],
      startAddr, 1, 0)

makePaddedBytes(s, startAddr, endAddr, lastRecordDataLen) ==
    copyRecords(
      [s EXCEPT !.dataBytes =
          AppendFill(@, paddedSize(startAddr, endAddr, lastRecordDataLen), 255)],
      startAddr, 1, 0)

\* ParseFile after its scanner loop, which ended as scanned = [st, e, v]
\* with v the Srec it left: the two checks, the address range, the buffer.
assemble(scanned) ==
    IF scanned.st # "ok" THEN scanned
    ELSE IF isDataRecordExists(scanned.v) # "nil"
         THEN Err(isDataRecordExists(scanned.v), scanned.v)
    ELSE IF isAddrAcending(scanned.v) # "nil"
         THEN Err(isAddrAcending(scanned.v), scanned.v)
    ELSE makePaddedBytes(
           [scanned.v EXCEPT !.startAddress = getStartAddr(scanned.v),
                             !.endAddress = getEndAddr(scanned.v)],
           getStartAddr(scanned.v), getEndAddr(scanned.v),
           getLastRecordDataLen(scanned.v))

\* ParseFile on the Srec s: [st, e, v] with v the Srec it leaves.
ParseFileOn(s, file) == assemble(scanLines(s, file, 1))

RECURSIVE setBytesLoop(_, _, _, _)
\* The loop of SetBytes at byte i (0-based) of wBytes.
setBytesLoop(s, start, wBytes, i) ==
    IF ~(i < Len(wBytes)) THEN Ok(s)
    ELSE IF ~InBounds(s.dataBytes, start + i) THEN Panic(s)
    ELSE setBytesLoop([s EXCEPT !.dataBytes = Store(@, start + i, wBytes[i + 1])],
                      start, wBytes, i + 1)

\* A SetBytes that checks the address against startAddress only.
SetBytesOnNoUpperCheck(s, wAddr, wBytes) ==
    IF Len(s.dataRecords) = 0 THEN Err("empty", s)
    ELSE IF wAddr < s.startAddress THEN Err("range", s)
    ELSE setBytesLoop(s, wAddr - s.startAddress, wBytes, 0)

\* SetBytes on the Srec s: [st, e, v] with v the Srec it leaves.
SetBytesOn(s, wAddr, wBytes) ==
    IF Len(s.dataRecords) = 0 THEN Err("empty", s)
    ELSE IF (wAddr < s.startAddress) \/ (wAddr > s.endAddress)
         THEN Err("range", s)
    ELSE setBytesLoop(s, wAddr - s.startAddress, wBytes, 0)

------------------------------------------------------------------------------
(* Input files: sequences of lines                                           *)

\* Highest address of an S1 line, longest data field, most lines of a file,
\* longest patch, most lines of a file of raw text.
MaxAddr == 1
MaxDataLen == 2
MaxLines == 3
MaxPatchLen == 2
MaxRawLines == 2

RECURSIVE HexText(_, _)
\* n written as w upper-case hex digits.
HexText(n, w) ==
    IF w = 0 THEN <<>>
    ELSE Append(HexText(n \div 16, w - 1), UpperDigits[(n % 16) + 1])

RECURSIVE BytesText(_)
\* The bytes bs written as two hex digits each.
BytesText(bs) ==
    IF bs = <<>> THEN <<>> ELSE HexText(Head(bs), 2) \o BytesText(Tail(bs))

RECURSIVE SumSeq(_)
SumSeq(bs) == IF bs = <<>> THEN 0 ELSE Head(bs) + SumSeq(Tail(bs))

\* The well-formed record line of type S<digit> with an address field of aw
\* bytes: count, address, data, and the one's-complement checksum.
RecordLine(digit, aw, addr, data) ==
    LET count == aw + Len(data) + 1
        addrBytes == [k \in 1..aw |-> (addr \div (256 ^ (aw - k))) % 256]
        csum == 255 - ((count + SumSeq(addrBytes) + SumSeq(data)) % 256)
    IN <<"S", digit>> \o HexText(count, 2) \o HexText(addr, 2 * aw)
         \o BytesText(data) \o HexText(csum, 2)

\* The n data bytes of the sample line at address a: distinct for distinct
\* lines and offsets, and never the pad byte.
SampleData(a, n) == [i \in 1..n |-> (32 * a + 8 * n + i) % 128]

\* S1 lines at every address 0..MaxAddr with 0..MaxDataLen data bytes.
S1Lines ==
    {RecordLine("1", 2, a, SampleData(a, n)) : a \in 0..MaxAddr, n \in 0..MaxDataLen}

\* An S2 line and an S3 line that overlap the S1 lines with other data, and
\* a header line.
S2Line == RecordLine("2", 3, 0, <<160>>)
S3Line == RecordLine("3", 4, MaxAddr, <<176>>)
S0Line == RecordLine("0", 2, 0, <<72, 68, 82>>)

Lines == S1Lines \cup {S2Line, S3Line, S0Line}

SeqsUpTo(S, n) == UNION {[1..k -> S] : k \in 1..n}

\* The files of well-formed lines.
Files == SeqsUpTo(Lines, MaxLines)

\* The files that are patched after parsing: S1 lines with no data or with
\* the longest data.
PatchLines ==
    {RecordLine("1", 2, a, SampleData(a, n)) : a \in 0..MaxAddr, n \in {0, MaxDataLen}}
PatchFiles == SeqsUpTo(PatchLines, MaxLines)

\* Raw text: a well-formed S1 line and header line, every truncation of the
\* S1 line (the empty line included), truncations of the header line, the
\* S1 line with a character that is no hex digit in its count, address,
\* data or checksum field, and the S1 line under other type tags.
GoodLine == RecordLine("1", 2, 0, SampleData(0, 2))
Prefixes(l) == {SubSeq(l, 1, k) : k \in 0..Len(l)}
Corrupt(l, k) == [l EXCEPT ![k] = "G"]
Retag(l, c, d) == [l EXCEPT ![1] = c, ![2] = d]
RawLines ==
    Prefixes(GoodLine)
      \cup {S0Line, SubSeq(S0Line, 1, 3), SubSeq(S0Line, 1, 9)}
      \cup {Corrupt(GoodLine, k) : k \in {3, 5, 9, 13}}
      \cup {Retag(GoodLine, "S", d) : d \in {"5", "9", "A"}}
      \cup {Retag(GoodLine, "X", "1"), Retag(GoodLine, "s", "1")}
RawFiles == SeqsUpTo(RawLines, MaxRawLines)

------------------------------------------------------------------------------
(* The program: one Srec value and the calls made on it                      *)

VARIABLES
    sr,          \* the Srec
    fileReader,  \* the lines given to ParseFile, <<>> before the call
    parsed,      \* what ParseFile returned: "none" before the call, "nil",
                 \* an error, or "panic"
    ret,         \* the last call: its name, arguments and result
    running      \* FALSE once a call has panicked

vars == <<sr, fileReader, parsed, ret, running>>

NoCall ==
    [op |-> "none", err |-> "nil", wAddr |-> 0, wBytes |-> <<>>,
     val |-> EmptyBytes]

\* The addresses and the data SetBytes is called with.
PatchAddrs == (0 .. MaxAddr + 1) \cup {Uint32 - 1}
PatchBytes(n) == [i \in 1..n |-> 223 + i]
PatchData == {PatchBytes(n) : n \in 0..MaxPatchLen}

Init ==
    /\ sr = NewSrec
    /\ fileReader = <<>>
    /\ parsed = "none"
    /\ ret = NoCall
    /\ running = TRUE

\* A call that ended as r = [st, e, v] leaves the Srec v, returns the
\* error e, and ends the program when it panicked.
Returns(call, r) ==
    /\ sr' = r.v
    /\ ret' = [call EXCEPT !.err = r.e]
    /\ running' = (r.st # "panic")

\* srs.ParseFile(fileReader), called once on the Srec, with a file of files.
ParseFile(files) ==
    /\ running
    /\ parsed = "none"
    /\ \E file \in files :
         /\ Returns([NoCall EXCEPT !.op = "ParseFile"], ParseFileOn(sr, file))
         /\ fileReader' = file
         /\ parsed' = ret'.err

\* sr.SetBytes(wAddr, wBytes)
SetBytes ==
    /\ running
    /\ \E wAddr \in PatchAddrs, wBytes \in PatchData :
         Returns([NoCall EXCEPT !.op = "SetBytes", !.wAddr = wAddr,
                                !.wBytes = wBytes],
                 SetBytesOn(sr, wAddr, wBytes))
    /\ UNCHANGED <<fileReader, parsed>>

\* sr.Bytes()
Bytes ==
    /\ running
    /\ ret' = [NoCall EXCEPT !.op = "Bytes", !.val = sr.dataBytes]
    /\ UNCHANGED <<sr, fileReader, parsed, running>>

\* Decoding and assembly: every file of well-formed lines.
Next == ParseFile(Files) \/ Bytes

Spec == Init /\ [][Next]_vars

\* Patching: a file, then any sequence of SetBytes and Bytes calls.
NextPatch == ParseFile(PatchFiles) \/ SetBytes \/ Bytes

SpecPatch == Init /\ [][NextPatch]_vars

\* Raw text: a file of arbitrary lines, then SetBytes and Bytes calls.
NextRaw == ParseFile(RawFiles) \/ SetBytes \/ Bytes

SpecRaw == Init /\ [][NextRaw]_vars

------------------------------------------------------------------------------
(* Properties                                                                *)

\* The data records the Srec holds. Under Spec and SpecPatch every line is
\* well formed, so these are the data records of the file, in file order.
Recs == sr.dataRecords

FirstAddr == Recs[1].address
LastAddr == Recs[Len(Recs)].address
LastLen == Len(Recs[Len(Recs)].data)

\* The buffer offset of byte 0 of data record r.
Offset(r) == Recs[r].address - sr.startAddress

\* Offset k lies in the range of some data record.
Covered(k) ==
    \E r \in 1..Len(Recs) : Offset(r) <= k /\ k <= Offset(r) + Len(Recs[r].data) - 1

NonDecreasing == \A r \in 1..(Len(Recs) - 1) : Recs[r].address <= Recs[r + 1].address

Digits09 == {"0", "1", "2", "3", "4", "5", "6", "7", "8", "9"}

\* The line starts with two characters that are not one of S0..S9.
UnknownTag(l) == Len(l) >= 2 /\ ~(l[1] = "S" /\ l[2] \in Digits09)

\* The line is empty, or is an S0..S3 line with fewer characters than its
\* count field or its address field needs.
ShortLine(l) ==
    \/ l = <<>>
    \/ /\ Len(l) >= 2
       /\ l[1] = "S"
       /\ l[2] \in {"0", "1", "2", "3"}
       /\ \/ Len(l) < 4
          \/ Len(l) < 4 + getAddrLenAsStr(SubSeq(l, 1, 2)).v
          \/ /\ IsHexDigit(l[3])
             /\ IsHexDigit(l[4])
             /\ Len(l) < 4 + 2 * HexValue(SubSeq(l, 3, 4), 0)

\* C1 (as claimed): when the data records of the input have non-decreasing
\* addresses, ParseFile succeeds and every byte i of every data record r is
\* read back from Bytes() at offset r.address - startAddress + i.
C1_EveryRecordReadable ==
    (parsed # "none" /\ Len(Recs) > 0 /\ NonDecreasing)
      => /\ parsed = "nil"
         /\ \A r \in 1..Len(Recs) : \A i \in 0..(Len(Recs[r].data) - 1) :
              /\ InBounds(sr.dataBytes, Offset(r) + i)
              /\ ByteAt(sr.dataBytes, Offset(r) + i) = Recs[r].data[i + 1]

\* C2 (as claimed): when some data record has a lower address than the record
\* right before it, the first and second record included, ParseFile returns
\* the ordering error.
C2_DescendingRejected ==
    (parsed # "none" /\ ~NonDecreasing) => parsed = "order"

\* The length of the buffer is endAddress - startAddress + lastRecordDataLength,
\* computed as the code computes it (unsigned, wrapping at Uint32), from the
\* first and the last data record in file order; where the last address is
\* not below the first, that is the plain integer value.
LengthAsDerived ==
    /\ sr.startAddress = FirstAddr
    /\ sr.endAddress = LastAddr
    /\ sr.dataBytes.len = (((LastAddr - FirstAddr) % Uint32) + LastLen) % Uint32
    /\ FirstAddr <= LastAddr => sr.dataBytes.len = LastAddr - FirstAddr + LastLen

\* C3: after a successful ParseFile on a fresh Srec the buffer has
\* endAddress - startAddress + lastRecordDataLength bytes, with startAddress
\* and endAddress the addresses of the first and the last data record in file
\* order, and no later SetBytes or Bytes call changes that length.
C3_LengthFixed ==
    [][parsed' = "nil"
         => /\ LengthAsDerived'
            /\ parsed = "nil" => sr'.dataBytes.len = sr.dataBytes.len]_vars

\* C3 witness: an image of two or more records with a gap between the first
\* and the last address has been patched successfully.
C3_Witness ==
    /\ parsed = "nil"
    /\ Len(Recs) >= 2
    /\ FirstAddr < LastAddr
    /\ ret.op = "SetBytes"
    /\ ret.err = "nil"
    /\ Len(ret.wBytes) > 0

\* C4: after a successful ParseFile and before any SetBytes, every offset of
\* the buffer that lies in no data record's range holds 0xFF.
C4_PadIsFF ==
    parsed = "nil"
      => \A k \in 0..(sr.dataBytes.len - 1) :
           ~Covered(k) => ByteAt(sr.dataBytes, k) = 255

\* C4 witness: an assembled image with an offset no record covers and an
\* offset a record covers.
C4_Witness ==
    /\ parsed = "nil"
    /\ sr.dataBytes.len <= 8
    /\ \E k \in 0..(sr.dataBytes.len - 1) : ~Covered(k)
    /\ \E k \in 0..(sr.dataBytes.len - 1) : Covered(k)

\* C5 (as claimed): when ParseFile returns an error the Srec retains nothing
\* of that parse: the buffer is empty, no data record remains, and a
\* following SetBytes returns the "no data" error.
C5_FailedParseKeepsNothing ==
    parsed \notin {"none", "nil", "panic"}
      => /\ sr.dataBytes.len = 0
         /\ Len(Recs) = 0
         /\ ret.op = "SetBytes" => ret.err = "empty"

\* C6: on an assembled image, SetBytes with an address below startAddress or
\* above endAddress returns the out-of-range error and leaves the buffer, its
\* length, startAddress and endAddress as they were, whatever the length of
\* the data.
C6_OutOfRangeRejected ==
    [][(/\ parsed = "nil"
        /\ ret'.op = "SetBytes"
        /\ (ret'.wAddr < sr.startAddress \/ ret'.wAddr > sr.endAddress))
         => /\ ret'.err = "range"
            /\ sr' = sr
            /\ running']_vars

\* C6 witness: SetBytes was called on a non-empty assembled image with an
\* address above endAddress and with data, and returned the range error.
C6_Witness ==
    /\ parsed = "nil"
    /\ sr.dataBytes.len > 0
    /\ ret.op = "SetBytes"
    /\ ret.wAddr > sr.endAddress
    /\ Len(ret.wBytes) > 0
    /\ ret.err = "range"

\* C7 (as claimed): on an assembled image, SetBytes with startAddress <=
\* address <= endAddress and address + len(data) - 1 <= endAddress succeeds,
\* writes data at offsets address - startAddress .. + len(data) - 1, all of
\* them inside the buffer, and changes no other byte, nor the length, nor
\* startAddress, nor endAddress.
C7_PatchInRange ==
    [][(/\ parsed = "nil"
        /\ ret'.op = "SetBytes"
        /\ sr.startAddress <= ret'.wAddr
        /\ ret'.wAddr <= sr.endAddress
        /\ ret'.wAddr + Len(ret'.wBytes) - 1 <= sr.endAddress)
         => LET start == ret'.wAddr - sr.startAddress
                n == Len(ret'.wBytes)
            IN /\ ret'.err = "nil"
               /\ \A i \in 0..(n - 1) :
                    /\ InBounds(sr.dataBytes, start + i)
                    /\ ByteAt(sr'.dataBytes, start + i) = ret'.wBytes[i + 1]
               /\ \A k \in (0..(sr.dataBytes.len - 1)) \ (start..(start + n - 1)) :
                    ByteAt(sr'.dataBytes, k) = ByteAt(sr.dataBytes, k)
               /\ sr'.dataBytes.len = sr.dataBytes.len
               /\ sr'.startAddress = sr.startAddress
               /\ sr'.endAddress = sr.endAddress]_vars

\* C8 (as claimed): a file with a line whose two-character prefix is not one
\* of S0..S9 is rejected: ParseFile does not succeed and builds no image.
C8_UnknownTagRejected ==
    (parsed # "none" /\ \E n \in 1..Len(fileReader) : UnknownTag(fileReader[n]))
      => /\ parsed # "nil"
         /\ sr.dataBytes.len = 0

\* C9 (as claimed): a file with an S0..S3 line shorter than its fields need,
\* or with an empty line, makes ParseFile return an error value: it neither
\* succeeds nor terminates abnormally.
C9_ShortLineIsError ==
    (parsed # "none" /\ \E n \in 1..Len(fileReader) : ShortLine(fileReader[n]))
      => parsed \notin {"nil", "panic"}

\* C10 (as claimed): for a record list that is not empty and passes the
\* ordering check, materialization writes inside the buffer only (no index
\* out of range), and endAddress - startAddress does not wrap around.
C10_WritesInsideBuffer ==
    parsed \notin {"none", "empty", "order"}
      => /\ parsed # "panic"
         /\ FirstAddr <= LastAddr

====
